---- MODULE Spec2Model ----
(***************************************************************************)
(* Model of the ReplitDatabase client (src/unnamed/part_003): the          *)
(* key-value primitives get/has/check/empty/set/delete/list, the           *)
(* read-modify-write operations update and patch, and the bulk operations  *)
(* getAll/setAll/deleteAll, running against a remote store reached         *)
(* through axios.                                                          *)
(*                                                                         *)
(* JavaScript values are records tagged by their type t, each type with   *)
(* its own payload field (comparable whatever the two types are).  An     *)
(* object is the sequence of its <<name, value>> entries in insertion      *)
(* order, as Object.entries and JSON.stringify see it.  JSON text is a     *)
(* string; JSON.stringify and JSON.parse are computed on it character by   *)
(* character for the subset of JSON the model's values use (integers,      *)
(* strings without escapes, no white space).                               *)
(***************************************************************************)
EXTENDS Integers, Sequences, FiniteSets, TLC

(***************************************************************************)
(* JavaScript values                                                       *)
(***************************************************************************)
Num(n) == [t |-> "num", n |-> n]
Str(s) == [t |-> "str", s |-> s]
Bool(b) == [t |-> "bool", b |-> b]
Null == [t |-> "null"]
Undefined == [t |-> "undef"]
\* An array: its elements a, and the named (non-index) properties e it was given.
Arr(a) == [t |-> "arr", a |-> a, e |-> <<>>]
Obj(e) == [t |-> "obj", e |-> e]
\* A thrown or rejected error: k names its kind.
Err(k) == [t |-> "err", k |-> k]
\* A function the caller passes as setAll's values: k names it.
Fn(k) == [t |-> "fn", k |-> k]
\* values(key, y, z) for the functions of the model: (key, i) => i under the
\* name index, and key => key.
CallFn(fn, key, y, z) == IF fn.k = "index" THEN Num(y) ELSE key

\* typeof x
TypeOf(x) ==
  CASE x.t = "num" -> "number"
    [] x.t = "str" -> "string"
    [] x.t = "bool" -> "boolean"
    [] x.t = "undef" -> "undefined"
    [] x.t = "fn" -> "function"
    [] OTHER -> "object"

\* !x is false
Truthy(x) ==
  CASE x.t = "num" -> x.n # 0
    [] x.t = "str" -> x.s # ""
    [] x.t = "bool" -> x.b
    [] x.t \in {"null", "undef"} -> FALSE
    [] OTHER -> TRUE

\* Array.isArray(x)
IsArray(x) == x.t = "arr"

\* The position of name k among the entries e of an object, 0 when absent.
IndexOf(e, k) ==
  IF \E i \in 1..Len(e) : e[i][1] = k
  THEN CHOOSE i \in 1..Len(e) : e[i][1] = k
  ELSE 0

\* o[k] for a field name k: the property's value, undefined when o is a
\* primitive or has no such property (o is neither null nor undefined).
GetProp(o, k) ==
  IF o.t \in {"obj", "arr"} /\ IndexOf(o.e, k) # 0 THEN o.e[IndexOf(o.e, k)][2]
  ELSE Undefined

\* o[k] = y for an object or array o: an existing property keeps its place,
\* a new one is added last.
SetProp(o, k, y) ==
  IF IndexOf(o.e, k) # 0
  THEN [o EXCEPT !.e = [o.e EXCEPT ![IndexOf(o.e, k)] = <<k, y>>]]
  ELSE [o EXCEPT !.e = Append(o.e, <<k, y>>)]

\* String(x): the text JavaScript coerces x to.
RECURSIVE JsToString(_)
RECURSIVE JoinFrom(_, _)
JoinFrom(a, i) ==
  IF i > Len(a) THEN ""
  ELSE (IF a[i].t \in {"null", "undef"} THEN "" ELSE JsToString(a[i]))
       \o (IF i < Len(a) THEN "," ELSE "")
       \o JoinFrom(a, i + 1)
JsToString(x) ==
  CASE x.t = "num" -> ToString(x.n)
    [] x.t = "str" -> x.s
    [] x.t = "bool" -> (IF x.b THEN "true" ELSE "false")
    [] x.t = "null" -> "null"
    [] x.t = "undef" -> "undefined"
    [] x.t = "arr" -> JoinFrom(x.a, 1)
    [] OTHER -> "[object Object]"

\* Number(x) for the values whose conversion is a finite integer.
JsToNumber(x) ==
  CASE x.t = "num" -> x.n
    [] x.t = "bool" -> (IF x.b THEN 1 ELSE 0)
    [] OTHER -> 0

\* a + b: concatenation as soon as one side is (or converts to) a string,
\* arithmetic otherwise.
JsPlus(a, b) ==
  IF a.t \in {"str", "arr", "obj"} \/ b.t \in {"str", "arr", "obj"}
  THEN Str(JsToString(a) \o JsToString(b))
  ELSE Num(JsToNumber(a) + JsToNumber(b))

\* a - b on numbers.
JsMinus(a, b) == Num(JsToNumber(a) - JsToNumber(b))

\* Math.abs(n) * -1
NegAbs(n) == IF n < 0 THEN n ELSE 0 - n

\* s.slice(0, end) on a string or a sequence of length len: the number of
\* leading elements kept.
SliceEnd(len, end) ==
  IF end < 0 THEN (IF len + end > 0 THEN len + end ELSE 0)
  ELSE (IF end < len THEN end ELSE len)

(***************************************************************************)
(* JSON.stringify                                                          *)
(***************************************************************************)
RECURSIVE Stringify(_)
RECURSIVE StringifyElems(_, _)
RECURSIVE StringifyMembers(_, _, _)
StringifyElems(a, i) ==
  IF i > Len(a) THEN ""
  ELSE (IF a[i].t = "undef" THEN "null" ELSE Stringify(a[i]))
       \o (IF i < Len(a) THEN "," ELSE "")
       \o StringifyElems(a, i + 1)
\* Members whose value is undefined are left out.
StringifyMembers(e, i, first) ==
  IF i > Len(e) THEN ""
  ELSE IF e[i][2].t = "undef" THEN StringifyMembers(e, i + 1, first)
  ELSE (IF first THEN "" ELSE ",")
       \o "\"" \o e[i][1] \o "\":" \o Stringify(e[i][2])
       \o StringifyMembers(e, i + 1, FALSE)
\* JSON.stringify(x); for undefined the result is not a text but undefined,
\* which encodeURIComponent turns into the text undefined.
Stringify(x) ==
  CASE x.t = "num" -> ToString(x.n)
    [] x.t = "str" -> "\"" \o x.s \o "\""
    [] x.t = "bool" -> (IF x.b THEN "true" ELSE "false")
    [] x.t = "null" -> "null"
    [] x.t = "undef" -> "undefined"
    [] x.t = "arr" -> "[" \o StringifyElems(x.a, 1) \o "]"
    [] OTHER -> "{" \o StringifyMembers(x.e, 1, TRUE) \o "}"

(***************************************************************************)
(* JSON.parse                                                              *)
(***************************************************************************)
Ch(s, i) == IF i >= 1 /\ i <= Len(s) THEN SubSeq(s, i, i) ELSE ""
Digits == <<"0", "1", "2", "3", "4", "5", "6", "7", "8", "9">>
IsDigit(c) == \E d \in 1..10 : Digits[d] = c
DigitVal(c) == (CHOOSE d \in 1..10 : Digits[d] = c) - 1
StartsAt(s, i, w) == i + Len(w) - 1 <= Len(s) /\ SubSeq(s, i, i + Len(w) - 1) = w

\* A parse result: the value read and the position after it, or a failure.
Parsed(x, i) == [ok |-> TRUE, val |-> x, pos |-> i]
SyntaxError == [ok |-> FALSE, val |-> Undefined, pos |-> 0]

RECURSIVE ParseDigits(_, _, _)
ParseDigits(s, i, acc) ==
  IF IsDigit(Ch(s, i)) THEN ParseDigits(s, i + 1, 10 * acc + DigitVal(Ch(s, i)))
  ELSE Parsed(Num(acc), i)

ParseNumber(s, i) ==
  LET neg == Ch(s, i) = "-"
      j == IF neg THEN i + 1 ELSE i
      r == ParseDigits(s, j, 0)
  IN IF ~IsDigit(Ch(s, j)) THEN SyntaxError
     \* a leading zero is only allowed alone
     ELSE IF Ch(s, j) = "0" /\ IsDigit(Ch(s, j + 1)) THEN SyntaxError
     ELSE IF neg THEN Parsed(Num(0 - r.val.n), r.pos) ELSE r

RECURSIVE ParseChars(_, _, _)
ParseChars(s, i, acc) ==
  IF i > Len(s) THEN SyntaxError
  ELSE IF Ch(s, i) = "\"" THEN Parsed(Str(acc), i + 1)
  ELSE ParseChars(s, i + 1, acc \o Ch(s, i))

RECURSIVE ParseValue(_, _)
RECURSIVE ParseElems(_, _, _)
RECURSIVE ParseMembers(_, _, _)
ParseElems(s, i, acc) ==
  LET r == ParseValue(s, i)
  IN IF ~r.ok THEN SyntaxError
     ELSE IF Ch(s, r.pos) = "," THEN ParseElems(s, r.pos + 1, Append(acc, r.val))
     ELSE IF Ch(s, r.pos) = "]" THEN Parsed(Arr(Append(acc, r.val)), r.pos + 1)
     ELSE SyntaxError
ParseMembers(s, i, acc) ==
  LET k == IF Ch(s, i) = "\"" THEN ParseChars(s, i + 1, "") ELSE SyntaxError
      r == IF k.ok /\ Ch(s, k.pos) = ":" THEN ParseValue(s, k.pos + 1) ELSE SyntaxError
      o == IF r.ok THEN SetProp(acc, k.val.s, r.val) ELSE acc
  IN IF ~r.ok THEN SyntaxError
     ELSE IF Ch(s, r.pos) = "," THEN ParseMembers(s, r.pos + 1, o)
     ELSE IF Ch(s, r.pos) = "}" THEN Parsed(o, r.pos + 1)
     ELSE SyntaxError
ParseValue(s, i) ==
  LET c == Ch(s, i)
  IN IF c = "\"" THEN ParseChars(s, i + 1, "")
     ELSE IF c = "[" THEN
       (IF Ch(s, i + 1) = "]" THEN Parsed(Arr(<<>>), i + 2) ELSE ParseElems(s, i + 1, <<>>))
     ELSE IF c = "{" THEN
       (IF Ch(s, i + 1) = "}" THEN Parsed(Obj(<<>>), i + 2)
        ELSE ParseMembers(s, i + 1, Obj(<<>>)))
     ELSE IF StartsAt(s, i, "true") THEN Parsed(Bool(TRUE), i + 4)
     ELSE IF StartsAt(s, i, "false") THEN Parsed(Bool(FALSE), i + 5)
     ELSE IF StartsAt(s, i, "null") THEN Parsed(Null, i + 4)
     ELSE ParseNumber(s, i)

\* JSON.parse(text): the whole text must be one value.
JsonParse(text) ==
  LET r == ParseValue(text, 1)
  IN IF r.ok /\ r.pos = Len(text) + 1 THEN r ELSE SyntaxError


(***************************************************************************)
(* The patch engine: the callbacks of update and patch, as functions of    *)
(* the value read (oldValue) and the caller's argument (value).  A result  *)
(* is the mutated oldValue, or the TypeError the strict-mode class code    *)
(* throws.                                                                 *)
(***************************************************************************)
Ok(x) == [ok |-> TRUE, val |-> x]
Throw == [ok |-> FALSE, val |-> Err("TypeError")]

\* Object.entries(x) throws on null and undefined.
EntriesThrows(x) == x.t \in {"null", "undef"}
\* Object.entries(x) for an object, a number or a boolean (the patches and
\* operator payloads of the model are never arrays or strings).
Entries(x) == IF x.t = "obj" THEN x.e ELSE <<>>

\* const [ [x, y] ] = Object.entries(val) succeeds.
Destructures(val) == ~EntriesThrows(val) /\ Len(Entries(val)) >= 1
EntryName(val) == Entries(val)[1][1]
EntryValue(val) == Entries(val)[1][2]

\* oldValue[x] = y: a TypeError on null, undefined and, in strict code, on a
\* primitive.
Assign(o, x, y) == IF o.t \in {"obj", "arr"} THEN Ok(SetProp(o, x, y)) ELSE Throw

\* Reading oldValue[x] throws on null and undefined.
ReadThrows(o) == o.t \in {"null", "undef"}

\* Mutant: $set replaces the whole value by the one field.
op_setReplace(o, val) ==
  IF ~Destructures(val) THEN Throw
  ELSE Assign(Obj(<<>>), EntryName(val), EntryValue(val))

\* operators.$set
op_set(o, val) ==
  IF ~Destructures(val) THEN Throw
  ELSE Assign(o, EntryName(val), EntryValue(val))

\* Mutant: $add on an array concatenates an array operand instead of pushing
\* it as one element.
op_addConcat(o, val) ==
  IF ~Destructures(val) \/ ReadThrows(o) THEN Throw
  ELSE LET x == EntryName(val)
           y == EntryValue(val)
           cur == GetProp(o, x)
       IN CASE TypeOf(cur) = "string" -> Assign(o, x, JsPlus(cur, y))
            [] TypeOf(cur) = "number" -> Assign(o, x, JsPlus(cur, y))
            [] TypeOf(cur) = "object" /\ IsArray(cur) ->
                 Ok(SetProp(o, x, [cur EXCEPT !.a = IF IsArray(y) THEN cur.a \o y.a
                                                     ELSE Append(cur.a, y)]))
            [] OTHER -> Ok(o)

\* operators.$add
op_add(o, val) ==
  IF ~Destructures(val) \/ ReadThrows(o) THEN Throw
  ELSE LET x == EntryName(val)
           y == EntryValue(val)
           cur == GetProp(o, x)
       IN CASE TypeOf(cur) = "string" -> Assign(o, x, JsPlus(cur, y))
            [] TypeOf(cur) = "number" -> Assign(o, x, JsPlus(cur, y))
            [] TypeOf(cur) = "object" /\ IsArray(cur) ->
                 Ok(SetProp(o, x, [cur EXCEPT !.a = Append(cur.a, y)]))
            [] OTHER -> Ok(o)

\* operators.$sub
op_sub(o, val) ==
  IF ~Destructures(val) \/ ReadThrows(o) THEN Throw
  ELSE LET x == EntryName(val)
           y == EntryValue(val)
           cur == GetProp(o, x)
           end == NegAbs(JsToNumber(y))
       IN CASE TypeOf(cur) = "string" ->
                 Assign(o, x, Str(SubSeq(cur.s, 1, SliceEnd(Len(cur.s), end))))
            [] TypeOf(cur) = "number" -> Assign(o, x, JsMinus(cur, y))
            [] TypeOf(cur) = "object" /\ IsArray(cur) ->
                 Assign(o, x, Arr(SubSeq(cur.a, 1, SliceEnd(Len(cur.a), end))))
            [] OTHER -> Ok(o)

OperatorNames == {"$set", "$add", "$sub"}
operators(name, o, val) ==
  CASE name = "$set" -> op_set(o, val)
    [] name = "$add" -> op_add(o, val)
    [] OTHER -> op_sub(o, val)

\* Object.entries(value).filter(operator entries).forEach(apply), from
\* entry i on; r is the result so far.
RECURSIVE ApplyOperators(_, _, _)
ApplyOperators(r, entries, i) ==
  IF ~r.ok \/ i > Len(entries) THEN r
  ELSE IF entries[i][1] \in OperatorNames
       THEN ApplyOperators(operators(entries[i][1], r.val, entries[i][2]), entries, i + 1)
       ELSE ApplyOperators(r, entries, i + 1)

\* Object.entries(value).filter(plain entries).forEach(assign)
RECURSIVE ApplyPlain(_, _, _)
ApplyPlain(r, entries, i) ==
  IF ~r.ok \/ i > Len(entries) THEN r
  ELSE IF entries[i][1] \notin OperatorNames
       THEN ApplyPlain(Assign(r.val, entries[i][1], entries[i][2]), entries, i + 1)
       ELSE ApplyPlain(r, entries, i + 1)

\* Object.entries(value).forEach(assign)
RECURSIVE ApplyAll(_, _, _)
ApplyAll(r, entries, i) ==
  IF ~r.ok \/ i > Len(entries) THEN r
  ELSE ApplyAll(Assign(r.val, entries[i][1], entries[i][2]), entries, i + 1)

\* Mutant: update assigns the plain entries before it applies the operators.
updateValuePlainFirst(oldValue, value) ==
  IF EntriesThrows(value) THEN Throw
  ELSE ApplyOperators(ApplyPlain(Ok(oldValue), Entries(value), 1), Entries(value), 1)

\* The body of update's then-callback up to the set: the value to write.
updateValue(oldValue, value) ==
  IF EntriesThrows(value) THEN Throw
  ELSE ApplyPlain(ApplyOperators(Ok(oldValue), Entries(value), 1), Entries(value), 1)

\* Mutant: patch interprets operator entries as update does.
patchValueOperators(oldValue, value) == updateValue(oldValue, value)

\* The body of patch's then-callback up to the set: the value to write.
patchValue(oldValue, value) ==
  IF EntriesThrows(value) THEN Throw
  ELSE ApplyAll(Ok(oldValue), Entries(value), 1)

(***************************************************************************)
(* Bounds and input domains                                                *)
(***************************************************************************)
\* The number of calls the caller makes in one behaviour of Spec.
MaxCalls == 2
\* The largest magnitude of a $sub operand.
MaxSub == 3

\* The keys of the remote store, in the order its listing returns them.
KeyOrder == <<"k1", "k2">>
Keys == {KeyOrder[i] : i \in 1..Len(KeyOrder)}

\* Key arguments: two valid keys, the empty string, a truthy non-string and
\* a falsy non-string.
KeyArgs == {Str("k1"), Str("k2"), Str(""), Num(7), Undefined}
\* Prefix arguments of list.
PrefixArgs == {Str(""), Str("k"), Str("k2"), Str("x"), Num(7), Null}

\* Values of the patched objects' fields.
vNum == Num(5)
vStr == Str("hello")
vArr == Arr(<<Str("a")>>)
vObj == Obj(<<<<"n", Num(1)>>>>)

\* The values set writes in Spec: every JSON type, strings that are
\* themselves JSON texts, and undefined.
SetValues ==
  {Str("a"), Str(""), Str("5"), Num(0), Bool(FALSE), Null,
   Arr(<<Num(1)>>), Arr(<<Str("a"), Num(2)>>),
   Obj(<<<<"f", vNum>>, <<"g", Str("x")>>>>), Undefined}

\* The non-object second arguments of update and patch.
ScalarArgs == {Str("a"), Num(5), Bool(FALSE), Undefined}

\* Operands of $set, $add and plain entries.
Operands == {Num(3), Str("b"), Bool(TRUE), Null, Arr(<<Num(1)>>)}
SubOperands == {Num(n) : n \in (0 - MaxSub)..MaxSub}
Fields == {"f", "g"}

Entry(k, y) == <<k, y>>
Single(k, y) == Obj(<<Entry(k, y)>>)

\* The object-like second arguments of update and patch: one operator or
\* plain entry, an operator and a plain entry on the same field in both
\* orders, two plain entries, and arguments whose application throws.
PatchArgs ==
  {Single(op, Single(f, y)) : op \in {"$set", "$add"}, f \in Fields, y \in Operands}
  \cup {Single("$sub", Single(f, y)) : f \in Fields, y \in SubOperands}
  \cup {Single(f, y) : f \in Fields, y \in Operands}
  \cup {Obj(<<Entry(op, Single("f", Num(3))), Entry("f", Str("p"))>>) : op \in OperatorNames}
  \cup {Obj(<<Entry("f", Str("p")), Entry(op, Single("f", Num(3)))>>) : op \in OperatorNames}
  \cup {Obj(<<Entry("f", Num(1)), Entry("g", Num(2))>>), Obj(<<>>)}
  \cup {Single(op, bad) : op \in OperatorNames, bad \in {Null, Obj(<<>>)}}
  \cup {Null}

\* The arguments of update and patch in Spec.
SpecArgs == {Num(5), Single("$add", Single("f", Num(3)))}

\* The values a key may hold when update or patch reads it.
StoredValues ==
  {Obj(<<Entry("f", y), Entry("g", Num(1))>>) : y \in {vNum, vStr, vArr, vObj, Bool(TRUE), Null}}
  \cup {Obj(<<Entry("g", Num(1))>>), Obj(<<>>), Obj(<<Entry("f", Str(""))>>),
        Obj(<<Entry("f", Arr(<<>>))>>), Obj(<<Entry("f", Arr(<<Num(1), Num(2), Num(3)>>))>>)}
  \cup {Num(5), Str("s"), Null}

(***************************************************************************)
(* State                                                                   *)
(***************************************************************************)
VARIABLES
  store,              \* the remote store: per key, whether it exists and its text
  lastWrite,          \* per key, the last request the store applied to it
  calls,              \* the client calls, by call id
  budget,             \* the number of calls the caller may still make
  transformResponse   \* whether axios decodes JSON response bodies (its default)

vars == <<store, lastWrite, calls, budget, transformResponse>>

Absent == [has |-> FALSE, text |-> ""]
Present(text) == [has |-> TRUE, text |-> text]

\* lastWrite: nothing since the start, a set of value val, or a delete.
NoWrite == [kind |-> "none", val |-> Undefined]
SetWrite(x) == [kind |-> "set", val |-> x]
DeleteWrite == [kind |-> "delete", val |-> Undefined]

\* A promise: pending, fulfilled with val or rejected with val.
Pending == [state |-> "pending", val |-> Undefined]
Fulfilled(x) == [state |-> "fulfilled", val |-> x]
Rejected(e) == [state |-> "rejected", val |-> e]

\* An error of axios that carries a response has a status.
HttpError(status) == Err(status)
NetworkError == Err("Network Error")
HasResponse(e) == e \in {HttpError("404"), HttpError("500")}
\* err.response
Response(e) == [t |-> "response", k |-> e.k]

\* A call: its operation and arguments; pc, the request in flight ("GET",
\* "POST", "DELETE", "LIST"), "idle" before the call and "done" once no
\* callback of it is left to run; body, the value a POST in flight carries;
\* promise, the promise the caller holds; inner, the promise of the set that
\* update or patch started; chained, whether inner's settlement is passed on
\* to promise; the requests sent; and, for the claims, read, the promise of
\* the this.get(key) the call made, the status of the last response, the
\* store's last write to the key when the GET was served, and the store at
\* the start of the call.
IdleCall ==
  [op |-> "", key |-> Undefined, arg |-> Undefined, pc |-> "idle", body |-> Undefined,
   promise |-> Pending, inner |-> Pending, chained |-> FALSE, read |-> Pending,
   nGet |-> 0, nPost |-> 0, nDelete |-> 0, nList |-> 0,
   status |-> "", seen |-> NoWrite, before |-> <<>>]

NewCall(op, key, arg) ==
  [IdleCall EXCEPT !.op = op, !.key = key, !.arg = arg, !.before = store]

Settle(call, p) == [call EXCEPT !.pc = "done", !.promise = p]

\* The caller may start call c: it awaits each call before the next.
CanCall(c) ==
  /\ budget > 0
  /\ \A d \in DOMAIN calls : calls[d].pc \in {"idle", "done"}

\* The caller makes call c, which runs up to its first request or rejection.
Start(c, call) ==
  /\ calls' = [calls EXCEPT ![c] = call]
  /\ budget' = budget - 1
  /\ UNCHANGED <<store, lastWrite, transformResponse>>

(***************************************************************************)
(* The client's operations                                                 *)
(***************************************************************************)
\* if(!key) ...; if(typeof key !== `string`) ...
ValidKey(key) == Truthy(key) /\ TypeOf(key) = "string"
KeyError(key) ==
  IF ~Truthy(key) THEN Err("You must set a key name.")
  ELSE Err("Key's name must be a String")

\* axios.get(`${baseURL}/${key}`) is sent.
SendGet(call) == [call EXCEPT !.pc = "GET", !.nGet = @ + 1]
\* axios.post(baseURL, `${key}=${JSON.stringify(value)}`) is sent.
SendPost(call, value) == [call EXCEPT !.pc = "POST", !.nPost = @ + 1, !.body = value]
\* axios.delete(`${baseURL}/${key}`) is sent.
SendDelete(call) == [call EXCEPT !.pc = "DELETE", !.nDelete = @ + 1]
\* axios.get(`${baseURL}?prefix=${prefix}`) is sent.
SendList(call) == [call EXCEPT !.pc = "LIST", !.nList = @ + 1]

\* this.get(key), also as has, check and empty reach it: the key is checked,
\* then the GET is sent.
getCall(call) ==
  IF ValidKey(call.key) THEN SendGet(call)
  ELSE Settle(call, Rejected(KeyError(call.key)))

get(c, key) ==
  /\ CanCall(c)
  /\ Start(c, getCall(NewCall("get", key, Undefined)))

\* A rejection of get with an error without response is passed on unchanged.
has(c, key) ==
  /\ CanCall(c)
  /\ Start(c, getCall(NewCall("has", key, Undefined)))

check(c, key) ==
  /\ CanCall(c)
  /\ Start(c, getCall(NewCall("check", key, Undefined)))

empty(c, key) ==
  /\ CanCall(c)
  /\ Start(c, getCall(NewCall("empty", key, Undefined)))

\* this.set(key, value): the key is checked, then the POST is sent.
setCall(key, value) ==
  IF ValidKey(key)
  THEN [SendPost(NewCall("set", key, value), value) EXCEPT !.chained = TRUE]
  ELSE Settle(NewCall("set", key, value), Rejected(KeyError(key)))

set(c, key, value) ==
  /\ CanCall(c)
  /\ Start(c, setCall(key, value))

\* update and patch: the key is checked; for a value that is not an object
\* the executor returns this.set(key, value), whose promise nothing is
\* chained to; otherwise the value is read first.
\* Mutant: the value's type is looked at before the key is checked.
readModifyWriteUnchecked(call) ==
  IF TypeOf(call.arg) # "object" THEN SendPost(call, call.arg)
  ELSE IF ~ValidKey(call.key) THEN Settle(call, Rejected(KeyError(call.key)))
  ELSE SendGet(call)

\* Mutant: the argument is written without reading the key first.
readModifyWriteBlind(call) ==
  IF ~ValidKey(call.key) THEN Settle(call, Rejected(KeyError(call.key)))
  ELSE [SendPost(call, call.arg) EXCEPT !.chained = TRUE]

readModifyWrite(call) ==
  IF ~ValidKey(call.key) THEN Settle(call, Rejected(KeyError(call.key)))
  ELSE IF TypeOf(call.arg) # "object" THEN SendPost(call, call.arg)
  ELSE SendGet(call)

update(c, key, value) ==
  /\ CanCall(c)
  /\ Start(c, readModifyWrite(NewCall("update", key, value)))

patch(c, key, value) ==
  /\ CanCall(c)
  /\ Start(c, readModifyWrite(NewCall("patch", key, value)))

\* update and patch called by a caller that does not await its other calls:
\* call c is made while they are in flight.
updateAsync(c, key, value) ==
  /\ budget > 0 /\ calls[c].pc = "idle"
  /\ Start(c, readModifyWrite(NewCall("update", key, value)))

patchAsync(c, key, value) ==
  /\ budget > 0 /\ calls[c].pc = "idle"
  /\ Start(c, readModifyWrite(NewCall("patch", key, value)))

\* this.delete(key): the key is checked, then the DELETE is sent.
deleteCall(key) ==
  IF ValidKey(key) THEN SendDelete(NewCall("delete", key, Undefined))
  ELSE Settle(NewCall("delete", key, Undefined), Rejected(KeyError(key)))

delete(c, key) ==
  /\ CanCall(c)
  /\ Start(c, deleteCall(key))

list(c, prefix) ==
  /\ CanCall(c)
  /\ Start(c, IF TypeOf(prefix) # "string"
              THEN Settle(NewCall("list", Undefined, prefix),
                          Rejected(Err("Prefix must be a String")))
              ELSE SendList(NewCall("list", Undefined, prefix)))

(***************************************************************************)
(* The bulk operations getAll, setAll and deleteAll.  A bulk call c works  *)
(* on a sequence of keys and makes one get, set or delete for each: the    *)
(* call for the key at position i has the id c + i.  The bulk call keeps   *)
(* its values argument in body and the promise of its keys (the array      *)
(* passed, or what this.list(prefix) settled with) in read; its pc is      *)
(* "LIST" while the listing is in flight, "ALL" while its Promise.all is   *)
(* pending and "done" once its promise is settled.                         *)
(***************************************************************************)
BulkOps == {"getAll", "setAll", "deleteAll"}

\* The call the forEach callback makes for keys[i], whose index is i - 1.
childCall(parent, keys, i) ==
  CASE parent.op = "getAll" -> getCall(NewCall("get", keys[i], Undefined))
    [] parent.op = "setAll" ->
         setCall(keys[i], IF TypeOf(parent.body) = "function"
                          THEN CallFn(parent.body, keys[i], i - 1, Arr(keys))
                          ELSE parent.body)
    [] OTHER -> deleteCall(keys[i])

\* What Promise.all(promises).then passes to resolve once every promise is
\* fulfilled: the sets' and deletes' results in order, and for getAll
\* Object.fromEntries of the [ key, value ] pairs.
AllResult(parent, kids) ==
  IF parent.op = "getAll"
  THEN Obj([i \in 1..Len(kids) |-> <<kids[i].key.s, kids[i].promise.val>>])
  ELSE Arr([i \in 1..Len(kids) |-> kids[i].promise.val])

\* keys.forEach(...) and Promise.all(promises).then(resolve).catch(reject) of
\* the bulk call c: every call is made, and so every request sent, before
\* the Promise.all is built.  The calls rejected without a request reject it
\* in their order, and no key at all fulfils it.
doAll(cs, c, keys) ==
  LET kids == [i \in 1..Len(keys) |-> childCall(cs[c], keys, i)]
      rejected == {i \in 1..Len(keys) : kids[i].promise.state = "rejected"}
      first == CHOOSE i \in rejected : \A j \in rejected : i <= j
      parent == [cs[c] EXCEPT !.pc = "ALL"]
  IN [d \in DOMAIN cs |->
        IF d = c
        THEN (IF rejected # {} THEN Settle(parent, Rejected(kids[first].promise.val))
              ELSE IF keys = <<>> THEN Settle(parent, Fulfilled(AllResult(parent, kids)))
              ELSE parent)
        ELSE IF d - c \in 1..Len(keys) THEN kids[d - c]
        ELSE cs[d]]

\* The executor of a bulk call: setAll and deleteAll work on an array as it
\* is; any other argument, and every argument of getAll, goes to this.list,
\* whose rejection is passed on.
startAll(c, op, prefixOrList, values) ==
  LET parent == [NewCall(op, Undefined, prefixOrList) EXCEPT !.body = values]
      bad == Rejected(Err("Prefix must be a String"))
  IN IF op # "getAll" /\ IsArray(prefixOrList)
     THEN doAll([calls EXCEPT ![c] = [parent EXCEPT !.read = Fulfilled(prefixOrList)]],
                c, prefixOrList.a)
     ELSE IF TypeOf(prefixOrList) # "string"
     THEN [calls EXCEPT ![c] = Settle([parent EXCEPT !.read = bad], bad)]
     ELSE [calls EXCEPT ![c] = SendList(parent)]

getAll(c, prefix) ==
  /\ CanCall(c)
  /\ calls' = startAll(c, "getAll", prefix, Undefined)
  /\ budget' = budget - 1
  /\ UNCHANGED <<store, lastWrite, transformResponse>>

setAll(c, prefixOrList, values) ==
  /\ CanCall(c)
  /\ calls' = startAll(c, "setAll", prefixOrList, values)
  /\ budget' = budget - 1
  /\ UNCHANGED <<store, lastWrite, transformResponse>>

deleteAll(c, prefixOrList) ==
  /\ CanCall(c)
  /\ calls' = startAll(c, "deleteAll", prefixOrList, Undefined)
  /\ budget' = budget - 1
  /\ UNCHANGED <<store, lastWrite, transformResponse>>

(***************************************************************************)
(* Responses and the callbacks they run                                    *)
(***************************************************************************)
\* res.data: axios's default transformResponse decodes a non-empty body that
\* is JSON text and leaves any other body as the string it is.
ResponseData(text) ==
  IF transformResponse /\ text # "" /\ JsonParse(text).ok THEN JsonParse(text).val
  ELSE Str(text)

\* get's then-callback: JSON.parse(res.data), which first converts res.data
\* to a string, and res.data itself when that throws.
getValue(data) ==
  LET r == JsonParse(JsToString(data))
  IN IF r.ok THEN r.val ELSE data

\* set(key, oldValue).then(resolve).catch(reject), sent from a then-callback.
writeBack(call, r) ==
  IF r.ok THEN [SendPost(call, r.val) EXCEPT !.chained = TRUE]
  ELSE Settle(call, Rejected(r.val))

\* The callbacks that run when this.get(key) is fulfilled with value.
getThen(call, x) ==
  CASE call.op = "get" -> Settle(call, Fulfilled(x))
    [] call.op \in {"has", "check"} -> Settle(call, Fulfilled(Bool(x # Undefined)))
    [] call.op = "empty" -> Settle(call, Fulfilled(Bool(Bool(x # Undefined) = Bool(FALSE))))
    [] call.op = "update" -> writeBack(call, updateValue(x, call.arg))
    [] OTHER -> writeBack(call, patchValue(x, call.arg))

\* Mutant: has does not tell a 404 from the other failures.
hasCatchNo404(err) == Rejected(IF ~HasResponse(err) THEN err ELSE Response(err))

\* has's catch-callback.
hasCatch(err) ==
  IF HasResponse(err) /\ err = HttpError("404") THEN Fulfilled(Bool(FALSE))
  ELSE Rejected(IF ~HasResponse(err) THEN err ELSE Response(err))

\* empty's then- and catch-callbacks on has's promise.
emptyOf(p) ==
  IF p.state = "fulfilled" THEN Fulfilled(Bool(p.val = Bool(FALSE))) ELSE p

\* Mutant: get turns a 404 into the value undefined.
getCatchAbsent(call, err) ==
  CASE call.op \in {"has", "check"} -> Settle(call, hasCatch(err))
    [] call.op = "empty" -> Settle(call, emptyOf(hasCatch(err)))
    [] call.op = "get" /\ err = HttpError("404") -> Settle(call, Fulfilled(Undefined))
    [] OTHER -> Settle(call, Rejected(err))

\* The callbacks that run when this.get(key) is rejected with err.
getCatch(call, err) ==
  CASE call.op \in {"has", "check"} -> Settle(call, hasCatch(err))
    [] call.op = "empty" -> Settle(call, emptyOf(hasCatch(err)))
    [] OTHER -> Settle(call, Rejected(err))

\* The set's promise settles with p: the caller's promise follows it only
\* when it was chained to it.
setSettled(call, p) ==
  [call EXCEPT !.pc = "done", !.inner = p,
               !.promise = IF call.chained THEN p ELSE call.promise]

\* The keys the store lists for a prefix, one per line.
RECURSIVE ListingFrom(_, _, _)
ListingFrom(prefix, i, first) ==
  IF i > Len(KeyOrder) THEN ""
  ELSE IF store[KeyOrder[i]].has /\ StartsAt(KeyOrder[i], 1, prefix)
       THEN (IF first THEN "" ELSE "\n") \o KeyOrder[i] \o ListingFrom(prefix, i + 1, FALSE)
       ELSE ListingFrom(prefix, i + 1, first)

\* s.split(`\n`)
RECURSIVE SplitFrom(_, _, _, _)
SplitFrom(s, i, cur, acc) ==
  IF i > Len(s) THEN Append(acc, Str(cur))
  ELSE IF Ch(s, i) = "\n" THEN SplitFrom(s, i + 1, "", Append(acc, Str(cur)))
  ELSE SplitFrom(s, i + 1, cur \o Ch(s, i), acc)
Split(s) == Arr(SplitFrom(s, 1, "", <<>>))

\* list's then-callback: res.data.split throws when res.data is no string.
listThen(call, data) ==
  IF data.t = "str" THEN Settle(call, Fulfilled(Split(data.s)))
  ELSE Settle(call, Rejected(Err("TypeError")))

\* Mutant: a rejection of one call of a bulk call cancels the requests of
\* its siblings still in flight.
JoinedCancelling(cs, c) ==
  LET ps == {d \in DOMAIN cs : /\ cs[d].op \in BulkOps /\ cs[d].pc = "ALL"
                               /\ c - d \in 1..Len(cs[d].read.val.a)}
      p == CHOOSE d \in ps : TRUE
      kids == [i \in 1..Len(cs[p].read.val.a) |-> cs[p + i]]
  IN IF ps = {} THEN cs
     ELSE IF cs[c].promise.state = "rejected"
     THEN [d \in DOMAIN cs |->
             IF d = p THEN Settle(cs[p], Rejected(cs[c].promise.val))
             ELSE IF d - p \in DOMAIN kids /\ cs[d].pc \in {"POST", "DELETE"}
             THEN Settle(cs[d], Rejected(Err("canceled")))
             ELSE cs[d]]
     ELSE IF \A i \in DOMAIN kids : kids[i].promise.state = "fulfilled"
     THEN [cs EXCEPT ![p] = Settle(@, Fulfilled(AllResult(cs[p], kids)))]
     ELSE cs

\* The reactions of Promise.all to the settlement of call c, in the calls cs:
\* when c is one of the calls of a bulk call whose Promise.all is pending, a
\* rejection of c rejects the bulk call with c's error, and the fulfilment
\* of the last of its calls fulfils it.  The other calls are left as they
\* are, in flight or not.
Joined(cs, c) ==
  LET ps == {d \in DOMAIN cs : /\ cs[d].op \in BulkOps /\ cs[d].pc = "ALL"
                               /\ c - d \in 1..Len(cs[d].read.val.a)}
      p == CHOOSE d \in ps : TRUE
      kids == [i \in 1..Len(cs[p].read.val.a) |-> cs[p + i]]
  IN IF ps = {} THEN cs
     ELSE IF cs[c].promise.state = "rejected"
     THEN [cs EXCEPT ![p] = Settle(@, Rejected(cs[c].promise.val))]
     ELSE IF \A i \in DOMAIN kids : kids[i].promise.state = "fulfilled"
     THEN [cs EXCEPT ![p] = Settle(@, Fulfilled(AllResult(cs[p], kids)))]
     ELSE cs

\* The store answers the GET of call c: 200 with the key's text, or 404.
axiosGet(c) ==
  LET call == calls[c]
      k == call.key.s
      served == [call EXCEPT !.seen = lastWrite[k],
                             !.status = IF store[k].has THEN "200" ELSE "404"]
      x == getValue(ResponseData(store[k].text))
  IN /\ call.pc = "GET"
     /\ calls' = Joined([calls EXCEPT ![c] =
          IF store[k].has THEN getThen([served EXCEPT !.read = Fulfilled(x)], x)
          ELSE getCatch([served EXCEPT !.read = Rejected(HttpError("404"))],
                        HttpError("404"))], c)
     /\ UNCHANGED <<store, lastWrite, budget, transformResponse>>

\* Mutant: the read-modify-write is atomic, the patch of an update or patch
\* being applied to the value the store holds when the POST arrives.
axiosPostAtomic(c) ==
  LET call == calls[c]
      k == call.key.s
      cur == getValue(ResponseData(store[k].text))
      now == IF call.op = "update" THEN updateValue(cur, call.arg)
             ELSE patchValue(cur, call.arg)
      body == IF call.op \in {"update", "patch"} /\ call.read.state = "fulfilled"
                 /\ store[k].has /\ now.ok
              THEN now.val ELSE call.body
  IN /\ call.pc = "POST"
     /\ store' = [store EXCEPT ![k] = Present(Stringify(body))]
     /\ lastWrite' = [lastWrite EXCEPT ![k] = SetWrite(body)]
     /\ calls' = Joined([calls EXCEPT ![c] =
          setSettled([call EXCEPT !.status = "200"], Fulfilled(call.key))], c)
     /\ UNCHANGED <<budget, transformResponse>>

\* The store applies the POST of call c: the key's text is replaced.
axiosPost(c) ==
  LET call == calls[c]
      k == call.key.s
  IN /\ call.pc = "POST"
     /\ store' = [store EXCEPT ![k] = Present(Stringify(call.body))]
     /\ lastWrite' = [lastWrite EXCEPT ![k] = SetWrite(call.body)]
     /\ calls' = Joined([calls EXCEPT ![c] =
          setSettled([call EXCEPT !.status = "200"], Fulfilled(call.key))], c)
     /\ UNCHANGED <<budget, transformResponse>>

\* The store applies the DELETE of call c; for a key that does not exist it
\* answers 404 or success.
axiosDelete(c) ==
  LET call == calls[c]
      k == call.key.s
  IN /\ call.pc = "DELETE"
     /\ \E found \in (IF store[k].has THEN {TRUE} ELSE BOOLEAN) :
          /\ store' = [store EXCEPT ![k] = Absent]
          /\ lastWrite' = [lastWrite EXCEPT ![k] = DeleteWrite]
          /\ calls' = Joined([calls EXCEPT ![c] =
               IF found THEN Settle([call EXCEPT !.status = "200"], Fulfilled(call.key))
               ELSE Settle([call EXCEPT !.status = "404"], Rejected(HttpError("404")))], c)
     /\ UNCHANGED <<budget, transformResponse>>

\* The store answers the listing of call c.
axiosList(c) ==
  LET call == calls[c]
  IN /\ call.pc = "LIST" /\ call.op = "list"
     /\ calls' = [calls EXCEPT ![c] =
          listThen([call EXCEPT !.status = "200"],
                   ResponseData(ListingFrom(call.arg.s, 1, TRUE)))]
     /\ UNCHANGED <<store, lastWrite, budget, transformResponse>>

\* The store answers the listing of the bulk call c: this.list settles as
\* for list, and its then-callback makes the calls for the keys listed.
axiosListAll(c) ==
  LET call == [calls[c] EXCEPT !.status = "200"]
      listed == listThen(call, ResponseData(ListingFrom(call.arg.s, 1, TRUE))).promise
  IN /\ call.pc = "LIST" /\ call.op \in BulkOps
     /\ calls' = IF listed.state = "fulfilled"
                 THEN doAll([calls EXCEPT ![c] = [call EXCEPT !.read = listed]],
                            c, listed.val.a)
                 ELSE [calls EXCEPT ![c] = Settle([call EXCEPT !.read = listed], listed)]
     /\ UNCHANGED <<store, lastWrite, budget, transformResponse>>

\* The request of call c fails, with a 500 response or without response: the
\* store is not changed and the catch-callbacks run.
axiosFail(c, err) ==
  LET call == [calls[c] EXCEPT !.status = err.k]
  IN /\ call.pc \in {"GET", "POST", "DELETE", "LIST"}
     /\ calls' = Joined([calls EXCEPT ![c] =
          CASE call.pc = "GET" -> getCatch([call EXCEPT !.read = Rejected(err)], err)
            [] call.pc = "POST" -> setSettled(call, Rejected(err))
            [] OTHER -> Settle(call, Rejected(err))], c)
     /\ UNCHANGED <<store, lastWrite, budget, transformResponse>>

Failures == {HttpError("500"), NetworkError}

(***************************************************************************)
(* Specifications                                                          *)
(***************************************************************************)
\* Spec: the caller makes up to MaxCalls calls of any operation, one after
\* the other, on a store of two keys.
InitTexts == {Stringify(x) : x \in {Obj(<<Entry("f", vNum), Entry("g", Num(1))>>), Num(5)}}
             \cup {"abc"}

\* The call ids of Spec: one caller, which awaits each call.
Callers == {1}

Init ==
  /\ store \in [Keys -> {Absent} \cup {Present(text) : text \in InitTexts}]
  /\ store["k2"] \in {Absent, Present(Stringify(Num(5)))}
  /\ lastWrite = [k \in Keys |-> NoWrite]
  /\ calls = [c \in Callers |-> IdleCall]
  /\ budget = MaxCalls
  /\ transformResponse \in BOOLEAN

Next ==
  \E c \in Callers :
    \/ \E key \in KeyArgs : get(c, key)
    \/ \E key \in KeyArgs : has(c, key)
    \/ \E key \in KeyArgs : check(c, key)
    \/ \E key \in KeyArgs : empty(c, key)
    \/ \E key \in KeyArgs, value \in SetValues : set(c, key, value)
    \/ \E key \in KeyArgs, value \in SpecArgs : update(c, key, value)
    \/ \E key \in KeyArgs, value \in SpecArgs : patch(c, key, value)
    \/ \E key \in KeyArgs : delete(c, key)
    \/ \E prefix \in PrefixArgs : list(c, prefix)
    \/ axiosGet(c)
    \/ axiosPost(c)
    \/ axiosDelete(c)
    \/ axiosList(c)
    \/ \E err \in Failures : axiosFail(c, err)

Spec == Init /\ [][Next]_vars

\* SpecPatch: one call of update or patch on key k1, for every stored value
\* and every argument of the domains.
InitPatch ==
  /\ store \in {[k \in Keys |-> IF k = "k1" THEN s1 ELSE Present(Stringify(Num(5)))] :
                  s1 \in {Absent, Present("abc")}
                         \cup {Present(Stringify(x)) : x \in StoredValues}}
  /\ lastWrite = [k \in Keys |-> NoWrite]
  /\ calls = [c \in {1} |-> IdleCall]
  /\ budget = 1
  /\ transformResponse \in BOOLEAN

NextPatch ==
  \/ \E value \in ScalarArgs \cup PatchArgs : update(1, Str("k1"), value)
  \/ \E value \in ScalarArgs \cup PatchArgs : patch(1, Str("k1"), value)
  \/ axiosGet(1)
  \/ axiosPost(1)
  \/ \E err \in Failures : axiosFail(1, err)

SpecPatch == InitPatch /\ [][NextPatch]_vars

\* SpecBulk: one call of getAll, setAll or deleteAll, with call id 1; the
\* calls it makes for its keys have the ids 2 and 3.
BulkChildren == {2, 3}
\* The arrays of keys passed to setAll and deleteAll.
BulkKeys ==
  {Arr(<<Str("k1"), Str("k2")>>), Arr(<<Str("k2"), Str("k1")>>), Arr(<<Str("k1")>>),
   Arr(<<Str("k1"), Str("")>>), Arr(<<Str(""), Str("k2")>>), Arr(<<>>)}
\* The other first arguments: prefixes that match both keys, one key and no
\* key, and a number.
BulkPrefixes == {Str(""), Str("k"), Str("k2"), Str("x"), Num(7)}
\* The values argument of setAll: a single value, a sequence with one
\* element per key, and two functions.
BulkValues == {Str("v"), Arr(<<Num(1), Num(2)>>), Fn("index"), Fn("key")}

InitBulk ==
  /\ store \in [Keys -> {Absent, Present(Stringify(Num(5))), Present(Stringify(Str("a")))}]
  /\ lastWrite = [k \in Keys |-> NoWrite]
  /\ calls = [c \in {1} \cup BulkChildren |-> IdleCall]
  /\ budget = 1
  /\ transformResponse \in BOOLEAN

NextBulk ==
  \/ \E prefix \in BulkPrefixes : getAll(1, prefix)
  \/ \E prefixOrList \in BulkPrefixes \cup BulkKeys, values \in BulkValues :
       setAll(1, prefixOrList, values)
  \/ \E prefixOrList \in BulkPrefixes \cup BulkKeys : deleteAll(1, prefixOrList)
  \/ axiosListAll(1)
  \/ \E c \in BulkChildren : axiosGet(c)
  \/ \E c \in BulkChildren : axiosPost(c)
  \/ \E c \in BulkChildren : axiosDelete(c)
  \/ \E c \in {1} \cup BulkChildren, err \in Failures : axiosFail(c, err)

SpecBulk == InitBulk /\ [][NextBulk]_vars

\* SpecRace: two calls of update or patch on key k1, made by callers that do
\* not wait for each other, so that the two gets and the two sets reach the
\* store in any order.
Racers == {1, 2}
RaceArgs ==
  {Single("$add", Single("f", Num(3))), Single("$add", Single("f", Num(1))),
   Single("$set", Single("g", Num(2))), Single("g", Str("p"))}

InitRace ==
  /\ store \in {[k \in Keys |-> IF k = "k1" THEN Present(Stringify(x))
                                ELSE Present(Stringify(Num(5)))] :
                  x \in {Obj(<<Entry("f", vNum), Entry("g", Num(1))>>),
                         Obj(<<Entry("f", Num(0))>>)}}
  /\ lastWrite = [k \in Keys |-> NoWrite]
  /\ calls = [c \in Racers |-> IdleCall]
  /\ budget = Cardinality(Racers)
  /\ transformResponse \in BOOLEAN

NextRace ==
  \/ \E c \in Racers, value \in RaceArgs : updateAsync(c, Str("k1"), value)
  \/ \E c \in Racers, value \in RaceArgs : patchAsync(c, Str("k1"), value)
  \/ \E c \in Racers : axiosGet(c)
  \/ \E c \in Racers : axiosPost(c)
  \/ \E c \in Racers, err \in Failures : axiosFail(c, err)

SpecRace == InitRace /\ [][NextRace]_vars

(***************************************************************************)
(* Properties                                                              *)
(***************************************************************************)
\* The calls made so far.
Made == {c \in DOMAIN calls : calls[c].pc # "idle"}
Requests(call) == call.nGet + call.nPost + call.nDelete + call.nList
\* A call of update or patch with a valid key.
IsPatchCall(call) == call.op \in {"update", "patch"} /\ ValidKey(call.key)
\* The property names of an object.
Names(o) == {o.e[i][1] : i \in 1..Len(o.e)}

\* C1: update(key, v) and patch(key, v) with a valid key and a non-object v
\* send no get and exactly one set(key, v), and once that set has settled
\* the promise the caller holds has settled with the set's result: the key
\* on success, the set's failure otherwise.
C1_ScalarBypassSettles ==
  \A c \in Made :
    LET call == calls[c]
    IN IsPatchCall(call) /\ TypeOf(call.arg) # "object" =>
         /\ call.nGet = 0
         /\ call.nPost = 1
         /\ call.body = call.arg
         /\ call.pc = "done" =>
              /\ call.promise = call.inner
              /\ call.promise.state # "pending"
              /\ call.status = "200" => call.promise = Fulfilled(call.key)

\* C2: in update and patch with an object-like argument a set is sent only
\* after the call's get of the key was fulfilled; when the get is rejected,
\* or applying the argument throws, no set is sent, the store is as it was
\* when the call started and the call is rejected with that error.
Applied(call) ==
  IF call.op = "update" THEN updateValue(call.read.val, call.arg)
  ELSE patchValue(call.read.val, call.arg)

C2_NoBlindPatch ==
  \A c \in Made :
    LET call == calls[c]
    IN IsPatchCall(call) /\ TypeOf(call.arg) = "object" =>
         /\ call.nPost > 0 => call.nGet = 1 /\ call.read.state = "fulfilled"
         /\ call.read.state = "rejected" =>
              /\ call.nPost = 0
              /\ store = call.before
              /\ call.promise = Rejected(call.read.val)
         /\ call.read.state = "fulfilled" /\ ~Applied(call).ok =>
              /\ call.nPost = 0
              /\ store = call.before
              /\ call.promise = Rejected(Applied(call).val)

\* Witness of C2: an update whose get was fulfilled and whose application
\* threw, and so ended rejected.
C2_Witness ==
  \E c \in Made :
    /\ calls[c].op = "update" /\ TypeOf(calls[c].arg) = "object"
    /\ calls[c].read.state = "fulfilled"
    /\ ~Applied(calls[c]).ok
    /\ calls[c].pc = "done"

\* Deep equality: two values are equal up to the order of the properties of
\* their objects.
RECURSIVE Norm(_)
Norm(x) ==
  CASE x.t = "arr" -> [t |-> "arr", a |-> [i \in 1..Len(x.a) |-> Norm(x.a[i])]]
    [] x.t = "obj" -> [t |-> "obj", m |-> [k \in Names(x) |-> Norm(GetProp(x, k))]]
    [] OTHER -> x
DeepEqual(x, y) == Norm(x) = Norm(y)

\* C3: a get served while the key's last write is a set of a JSON value v
\* is fulfilled with a value deep-equal to v; and a fulfilled set(k, v)
\* leaves k holding exactly the text of v and every other key as it was.
C3_SetGetRoundTrip ==
  \A c \in Made :
    LET call == calls[c]
    IN /\ call.op = "get" /\ call.promise.state = "fulfilled"
          /\ call.seen.kind = "set" /\ call.seen.val.t # "undef" =>
            DeepEqual(call.promise.val, call.seen.val)
       /\ call.op = "set" /\ call.promise.state = "fulfilled" =>
            /\ store[call.key.s] = Present(Stringify(call.arg))
            /\ \A k \in Keys \ {call.key.s} : store[k] = call.before[k]

Old(call) == call.read.val
New(call) == call.body
ReadObject(call) ==
  IsPatchCall(call) /\ call.read.state = "fulfilled" /\ Old(call).t = "obj"
\* update(k, {op: {f: y}}) read an object.
OperatorCall(call, op) ==
  /\ ReadObject(call) /\ call.op = "update"
  /\ call.arg.t = "obj" /\ Len(call.arg.e) = 1 /\ call.arg.e[1][1] = op
  /\ call.arg.e[1][2].t = "obj" /\ Len(call.arg.e[1][2].e) = 1
Field(call) == call.arg.e[1][2].e[1][1]
Operand(call) == call.arg.e[1][2].e[1][2]
\* Every field but f is in new as it is in old.
OthersUnchanged(old, new, f) ==
  /\ Names(new) \ {f} = Names(old) \ {f}
  /\ \A g \in Names(old) \ {f} : GetProp(new, g) = GetProp(old, g)
\* Field f is in new as it is in old, missing when it was missing.
FieldUnchanged(old, new, f) ==
  /\ f \in Names(new) <=> f \in Names(old)
  /\ GetProp(new, f) = GetProp(old, f)
\* The call wrote new with one set, and nothing else.
OneSet(call) ==
  /\ call.nPost = 1 /\ call.nGet = 1 /\ call.nDelete = 0
  /\ call.promise.state = "fulfilled" =>
       /\ store[call.key.s] = Present(Stringify(New(call)))
       /\ \A k \in Keys \ {call.key.s} : store[k] = call.before[k]

\* The parts of C5 that do not depend on the operand's type: a string gets
\* the operand appended, an array gets it as one new last element, any other
\* field but a number is unchanged, the other fields are unchanged, one set.
AddCommon(call) ==
  LET f == Field(call)
      y == Operand(call)
      cur == GetProp(Old(call), f)
      new == GetProp(New(call), f)
  IN /\ cur.t = "str" => new = Str(cur.s \o JsToString(y))
     /\ cur.t = "arr" => new.t = "arr" /\ new.a = Append(cur.a, y)
                          /\ Len(new.a) = Len(cur.a) + 1
     /\ cur.t \notin {"num", "str", "arr"} => FieldUnchanged(Old(call), New(call), f)
     /\ OthersUnchanged(Old(call), New(call), f)
     /\ OneSet(call)

\* C5 as claimed: $add makes a number field the arithmetic sum of the field
\* and the operand, whatever the operand; the other types as in AddCommon.
C5_AddSumsNumbers ==
  \A c \in Made :
    LET call == calls[c]
        cur == GetProp(Old(call), Field(call))
        new == GetProp(New(call), Field(call))
    IN OperatorCall(call, "$add") =>
         /\ AddCommon(call)
         /\ cur.t = "num" =>
              /\ new.t = "num"
              /\ Operand(call).t = "num" => new.n = cur.n + Operand(call).n

\* C5 as amended: $add makes a number field the arithmetic sum when the
\* operand is a number, a boolean (1 or 0) or null (0), and the string made
\* of the field's decimal text followed by the operand's text when the
\* operand is a string, an array or an object; the other types as claimed.
C5_AddByType ==
  \A c \in Made :
    LET call == calls[c]
        y == Operand(call)
        cur == GetProp(Old(call), Field(call))
        new == GetProp(New(call), Field(call))
    IN OperatorCall(call, "$add") =>
         /\ AddCommon(call)
         /\ cur.t = "num" /\ y.t = "num" => new = Num(cur.n + y.n)
         /\ cur.t = "num" /\ y.t = "bool" => new = Num(cur.n + (IF y.b THEN 1 ELSE 0))
         /\ cur.t = "num" /\ y.t = "null" => new = cur
         /\ cur.t = "num" /\ y.t \in {"str", "arr", "obj"} =>
              new = Str(ToString(cur.n) \o JsToString(y))

\* Witness of C5: an array operand was pushed onto an array field.
C5_Witness ==
  \E c \in Made :
    /\ OperatorCall(calls[c], "$add")
    /\ GetProp(Old(calls[c]), Field(calls[c])).t = "arr"
    /\ Operand(calls[c]).t = "arr"
    /\ calls[c].promise.state = "fulfilled"

\* C6: $sub with an integer n leaves of a string or array field of length
\* len its first len - |n| elements, none when |n| >= len; makes a number
\* field f - n; and leaves a field of any other type unchanged.
Abs(n) == IF n < 0 THEN 0 - n ELSE n
Keep(len, n) == IF Abs(n) >= len THEN 0 ELSE len - Abs(n)
C6_SubTruncates ==
  \A c \in Made :
    LET call == calls[c]
        n == Operand(call).n
        cur == GetProp(Old(call), Field(call))
        new == GetProp(New(call), Field(call))
    IN OperatorCall(call, "$sub") /\ Operand(call).t = "num" =>
         /\ cur.t = "str" => new = Str(SubSeq(cur.s, 1, Keep(Len(cur.s), n)))
         /\ cur.t = "arr" => new.t = "arr" /\ new.a = SubSeq(cur.a, 1, Keep(Len(cur.a), n))
         /\ cur.t = "num" => new = Num(cur.n - n)
         /\ cur.t \notin {"num", "str", "arr"} => FieldUnchanged(Old(call), New(call), Field(call))

\* C7: $set on an object writes back the object with field f equal to x,
\* whether f existed or not, every other field unchanged, and writes no
\* other key.
C7_SetField ==
  \A c \in Made :
    LET call == calls[c]
    IN OperatorCall(call, "$set") =>
         /\ Field(call) \in Names(New(call))
         /\ GetProp(New(call), Field(call)) = Operand(call)
         /\ OthersUnchanged(Old(call), New(call), Field(call))
         /\ OneSet(call)

\* Witness of C7: $set added a field the object did not have, next to
\* another field, and the write succeeded.
C7_Witness ==
  \E c \in Made :
    /\ OperatorCall(calls[c], "$set")
    /\ Field(calls[c]) \notin Names(Old(calls[c]))
    /\ Names(Old(calls[c])) # {}
    /\ calls[c].promise.state = "fulfilled"

\* C8: patch on an object writes back the object with every entry of the
\* argument overwritten onto it and every other field unchanged; an entry
\* named $set, $add or $sub is stored as a field of that name.
C8_FlatMerge ==
  \A c \in Made :
    LET call == calls[c]
    IN ReadObject(call) /\ call.op = "patch" /\ call.arg.t = "obj" =>
         /\ New(call).t = "obj"
         /\ Names(New(call)) = Names(Old(call)) \cup Names(call.arg)
         /\ \A k \in Names(call.arg) : GetProp(New(call), k) = GetProp(call.arg, k)
         /\ \A k \in Names(Old(call)) \ Names(call.arg) :
              GetProp(New(call), k) = GetProp(Old(call), k)
         /\ OneSet(call)

\* Witness of C8: a patch with an entry named $add on a field the object
\* has was written.
C8_Witness ==
  \E c \in Made :
    /\ ReadObject(calls[c]) /\ calls[c].op = "patch" /\ calls[c].arg.t = "obj"
    /\ "$add" \in Names(calls[c].arg)
    /\ GetProp(calls[c].arg, "$add").t = "obj"
    /\ "f" \in Names(Old(calls[c])) /\ "f" \in Names(GetProp(calls[c].arg, "$add"))
    /\ calls[c].promise.state = "fulfilled"

\* C9: a call of get, has, check, empty, set, delete, update or patch with
\* an empty or non-string key is rejected with the key's error and sends no
\* request; a list with a non-string prefix is rejected and sends none.
KeyOps == {"get", "has", "check", "empty", "set", "delete", "update", "patch"}
C9_InvalidKeyNoRequest ==
  \A c \in Made :
    LET call == calls[c]
    IN /\ call.op \in KeyOps /\ ~ValidKey(call.key) =>
            /\ call.promise = Rejected(KeyError(call.key))
            /\ Requests(call) = 0
       /\ call.op = "list" /\ TypeOf(call.arg) # "string" =>
            /\ call.promise.state = "rejected"
            /\ Requests(call) = 0

\* Witness of C9: an update of a non-string key with a scalar value was
\* rejected.
C9_Witness ==
  \E c \in Made :
    /\ calls[c].op = "update" /\ calls[c].key = Num(7)
    /\ TypeOf(calls[c].arg) # "object"
    /\ calls[c].promise.state = "rejected"

\* C10: with one caller, a has or check served after a delete of the key is
\* fulfilled with false and one served after a set of the key, whatever the
\* value, with true; empty is fulfilled with the negation of what has is
\* fulfilled with on the same response; and a failure of the get other than
\* the 404 rejects has, check and empty.
Answered(call) == call.status \in {"200", "404"}
C10_HasAfterWrite ==
  \A c \in Made :
    LET call == calls[c]
    IN call.op \in {"has", "check", "empty"} /\ ValidKey(call.key) /\ call.pc = "done" =>
         /\ Answered(call) /\ call.op # "empty" =>
              /\ call.promise = Fulfilled(Bool(call.status = "200"))
              /\ call.seen.kind = "delete" => call.promise = Fulfilled(Bool(FALSE))
              /\ call.seen.kind = "set" => call.promise = Fulfilled(Bool(TRUE))
         /\ Answered(call) /\ call.op = "empty" =>
              call.promise = Fulfilled(Bool(~(call.status = "200")))
         /\ ~Answered(call) => call.promise.state = "rejected"

\* Witness of C10: a has served after a delete of its key.
C10_Witness ==
  \E c \in Made :
    /\ calls[c].op = "has" /\ calls[c].pc = "done"
    /\ calls[c].seen.kind = "delete"
    /\ calls[c].promise.state = "fulfilled"

\* The names of the keys of the store that begin with prefix, from the
\* i-th key of the listing order on.
RECURSIVE MatchingFrom(_, _)
MatchingFrom(prefix, i) ==
  IF i > Len(KeyOrder) THEN <<>>
  ELSE (IF store[KeyOrder[i]].has /\ StartsAt(KeyOrder[i], 1, prefix)
        THEN <<Str(KeyOrder[i])>> ELSE <<>>)
       \o MatchingFrom(prefix, i + 1)

\* C11: a list whose listing was answered is fulfilled with exactly the
\* names of the matching keys, in the listing's order, one element per key:
\* the sequence of length 0 when no key matches.
C11_ListReturnsListing ==
  \A c \in Made :
    LET call == calls[c]
    IN call.op = "list" /\ call.pc = "done" /\ call.status = "200" =>
         call.promise = Fulfilled(Arr(MatchingFrom(call.arg.s, 1)))

\* C11 where a key matches: the part of the claim the code keeps.
C11_ListOfMatches ==
  \A c \in Made :
    LET call == calls[c]
    IN /\ call.op = "list" /\ call.pc = "done" /\ call.status = "200"
       /\ MatchingFrom(call.arg.s, 1) # <<>>
       => call.promise = Fulfilled(Arr(MatchingFrom(call.arg.s, 1)))

\* The bulk calls made so far.
BulkMade == {c \in Made : calls[c].op \in BulkOps}
\* Whether the keys of the bulk call are known, the keys, and the calls it
\* made for them, by position.
HasKeys(call) == call.read.state = "fulfilled"
KeysOf(call) == call.read.val.a
Kids(c) == [i \in 1..Len(KeysOf(calls[c])) |-> calls[c + i]]
\* No request of the calls kids failed, and every one of them was answered.
AllAnswered(kids) ==
  \A i \in DOMAIN kids : kids[i].pc = "done" /\ kids[i].status \in {"", "200"}
\* The value get(key) returns from the store as it is, undefined standing
\* for the result of a get that returns none.
GetResult(k) ==
  IF k \in Keys /\ store[k].has THEN getValue(ResponseData(store[k].text)) ELSE Undefined
\* The mapping of getAll for the keys keys.
MappingOf(keys) == Obj([i \in 1..Len(keys) |-> <<keys[i].s, GetResult(keys[i].s)>>])

\* C12: with no other writer, a getAll of a prefix whose listing and gets were
\* all answered is fulfilled with the mapping from exactly the keys list
\* returned to the values get returns, also when no key matches; and when
\* one of its gets fails the getAll is rejected.
C12_GetAllMapsListing ==
  \A c \in BulkMade :
    LET call == calls[c]
    IN call.op = "getAll" /\ TypeOf(call.arg) = "string" /\ HasKeys(call) =>
         /\ AllAnswered(Kids(c)) => call.promise = Fulfilled(MappingOf(KeysOf(call)))
         /\ (\E i \in DOMAIN Kids(c) : Kids(c)[i].promise.state = "rejected") =>
              call.promise.state = "rejected"

\* C12 where a key matches: the part of the claim the code keeps.
C12_GetAllOfMatches ==
  \A c \in BulkMade :
    LET call == calls[c]
    IN /\ call.op = "getAll" /\ TypeOf(call.arg) = "string" /\ HasKeys(call)
       /\ MatchingFrom(call.arg.s, 1) # <<>>
       => /\ KeysOf(call) = MatchingFrom(call.arg.s, 1)
          /\ AllAnswered(Kids(c)) => call.promise = Fulfilled(MappingOf(KeysOf(call)))
          /\ (\E i \in DOMAIN Kids(c) : Kids(c)[i].promise.state = "rejected") =>
               call.promise.state = "rejected"

\* The value setAll is to write to keys[i], by the form of values: what the
\* function returns for the key, its index i - 1 and the keys; the element
\* at the key's position of a sequence; any other value itself.
ValueFor(values, keys, i) ==
  CASE TypeOf(values) = "function" -> CallFn(values, keys[i], i - 1, Arr(keys))
    [] IsArray(values) -> (IF i <= Len(values.a) THEN values.a[i] ELSE Undefined)
    [] OTHER -> values

\* The sets a setAll made for valid keys wrote value(values, keys, i) for
\* the key at position i, and the store holds it once the set succeeded.
SetAllWrites(c, value(_, _, _)) ==
  \A i \in DOMAIN Kids(c) :
    LET kid == Kids(c)[i]
    IN ValidKey(kid.key) =>
         /\ kid.op = "set" /\ kid.key = KeysOf(calls[c])[i] /\ kid.nPost = 1
         /\ kid.body = value(calls[c].body, KeysOf(calls[c]), i)
         /\ kid.promise.state = "fulfilled" =>
              store[kid.key.s] = Present(Stringify(value(calls[c].body, KeysOf(calls[c]), i)))

\* C13: setAll writes to the key at position i the value values(key, i, keys)
\* when values is a function, the element values[i] when values is a
\* sequence, and values itself for any other value.
C13_SetAllValueForms ==
  \A c \in BulkMade :
    calls[c].op = "setAll" /\ HasKeys(calls[c]) => SetAllWrites(c, ValueFor)

\* C13 for the values that are no sequence: the part of the claim the code
\* keeps.
C13_SetAllFunctionOrSingle ==
  \A c \in BulkMade :
    calls[c].op = "setAll" /\ HasKeys(calls[c]) /\ ~IsArray(calls[c].body) =>
      SetAllWrites(c, ValueFor)

\* One step of a setAll or deleteAll c whose keys are known after the step.
\* When the step makes its calls: every call with a valid key has its
\* request in flight, none answered yet, and the first call rejected for
\* its key rejects the bulk call.  When the step settles one of its calls:
\* a rejection rejects the bulk call with that error if its promise was
\* still pending; the siblings are left as they are; and a request answered
\* with success has written or deleted its own key and no other, and
\* fulfilled its call with the key, whether the bulk call had failed or not.
\* A settled bulk call's promise never changes.
BulkStep(c) ==
  LET n == Len(KeysOf(calls'[c]))
      old(i) == calls[c + i]
      new(i) == calls'[c + i]
      isNew == ~(calls[c].op \in BulkOps /\ HasKeys(calls[c]))
  IN /\ \A i \in 1..n :
          ValidKey(new(i).key) => new(i).nPost + new(i).nDelete = 1
     /\ isNew =>
          \A i \in 1..n :
            /\ ValidKey(new(i).key) =>
                 /\ new(i).pc = (IF calls'[c].op = "setAll" THEN "POST" ELSE "DELETE")
                 /\ new(i).promise.state = "pending"
            /\ (/\ new(i).promise.state = "rejected"
                /\ \A j \in 1..(i - 1) : new(j).promise.state # "rejected")
               => calls'[c].promise = Rejected(new(i).promise.val)
     /\ ~isNew =>
          /\ calls[c].promise.state # "pending" => calls'[c].promise = calls[c].promise
          /\ \A i \in 1..n :
               /\ old(i).promise.state = "pending" /\ new(i).promise.state = "rejected"
                  /\ calls[c].promise.state = "pending"
                  => calls'[c].promise = Rejected(new(i).promise.val)
               /\ old(i) # new(i) => \A j \in (1..n) \ {i} : new(j) = old(j)
               /\ old(i).pc \in {"POST", "DELETE"} /\ new(i).status = "200" =>
                    /\ store'[old(i).key.s] = (IF old(i).pc = "POST"
                                               THEN Present(Stringify(old(i).body))
                                               ELSE Absent)
                    /\ \A k \in Keys \ {old(i).key.s} : store'[k] = store[k]
                    /\ new(i).promise = Fulfilled(old(i).key)

\* C14: in setAll and deleteAll every set or delete request is issued
\* before any of them is answered; the first failing one fails the bulk call
\* with its error; and the siblings still in flight are not cancelled: each
\* runs to completion and, when it succeeds, takes effect on its own key
\* only.
C14_BulkNotCancelled ==
  [][\A c \in DOMAIN calls :
       calls'[c].op \in {"setAll", "deleteAll"} /\ HasKeys(calls'[c]) => BulkStep(c)]_vars

\* Witness of C14: a setAll over a missing key name and k2 was rejected for
\* the first when it was made, and the set of k2, in flight then, has
\* succeeded since and its value is in the store.
C14_Witness ==
  \E c \in BulkMade :
    /\ calls[c].op = "setAll" /\ HasKeys(calls[c])
    /\ KeysOf(calls[c]) = <<Str(""), Str("k2")>>
    /\ calls[c].promise = Rejected(KeyError(Str("")))
    /\ calls[c + 2].promise = Fulfilled(Str("k2"))
    /\ store["k2"] = Present(Stringify(calls[c + 2].body))
    /\ calls[c + 2].before["k2"] # store["k2"]

\* The operator entries of a patch, as a patch of its own.
RECURSIVE OperatorEntries(_, _)
OperatorEntries(e, i) ==
  IF i > Len(e) THEN <<>>
  ELSE (IF e[i][1] \in OperatorNames THEN <<e[i]>> ELSE <<>>) \o OperatorEntries(e, i + 1)
\* The names of the plain entries of a patch.
PlainNames(arg) == Names(arg) \ OperatorNames

Stored(k) == lastWrite[k].val
\* Call c is an update that adds a number to the number field f.
AddsTo(call, f) ==
  /\ call.op = "update" /\ call.arg.t = "obj" /\ Len(call.arg.e) = 1
  /\ call.arg.e[1][1] = "$add" /\ call.arg.e[1][2].t = "obj"
  /\ Len(call.arg.e[1][2].e) = 1
  /\ Field(call) = f /\ Operand(call).t = "num"
\* Both gets were answered before either set reached the store.
BothReadFirst(c, d) == calls[c].seen.kind = "none" /\ calls[d].seen.kind = "none"

\* The step in which the set of the update or patch c reaches the store:
\* the value stored is the one computed from the value c's own get
\* returned, whatever the store holds by then.
SetArrives(c) ==
  /\ calls[c].pc = "POST" /\ calls'[c].pc = "done"
  /\ calls'[c].promise.state = "fulfilled"
  => /\ calls[c].read.state = "fulfilled"
     /\ Applied(calls[c]).ok
     /\ store'[calls[c].key.s] = Present(Stringify(Applied(calls[c]).val))
     /\ calls'[c].promise = Fulfilled(calls[c].key)

\* Two calls on the same key that both succeeded: each made one get and one
\* set and no other request; the stored value is the one a call computed
\* from its own read; and when both gets were answered before either set,
\* it is one call's patch applied to the value both read, so that of two
\* $add increments of the field f exactly one is in it.
BothDone(c, d) ==
  LET k == calls[c].key.s
      x == calls[c]
      y == calls[d]
  IN /\ c # d /\ x.key = y.key
     /\ x.pc = "done" /\ x.promise.state = "fulfilled"
     /\ y.pc = "done" /\ y.promise.state = "fulfilled"
     => /\ \A w \in {c, d} : /\ calls[w].nGet = 1 /\ calls[w].nPost = 1
                             /\ calls[w].nDelete = 0 /\ calls[w].nList = 0
        /\ \E w \in {c, d} :
             /\ Stored(k) = Applied(calls[w]).val
             /\ store[k] = Present(Stringify(Applied(calls[w]).val))
        /\ BothReadFirst(c, d) =>
             /\ x.read = y.read
             /\ AddsTo(x, "f") /\ AddsTo(y, "f") /\ GetProp(x.read.val, "f").t = "num" =>
                  LET f0 == GetProp(x.read.val, "f").n
                      f1 == GetProp(Stored(k), "f").n
                  IN /\ f1 \in {f0 + Operand(x).n, f0 + Operand(y).n}
                     /\ f1 # f0 + Operand(x).n + Operand(y).n

\* C16: update and patch are one get followed later by one set; when two of
\* them run concurrently on a key and both succeed, the value stored at the
\* end is the one written by the set that reached the store last, computed
\* from that call's own read only, and when both gets completed before
\* either set the other call's change is not in it.
C16_LostUpdate ==
  [][/\ \A c \in DOMAIN calls : calls[c].op \in {"update", "patch"} => SetArrives(c)
     /\ \A c, d \in DOMAIN calls : BothDone(c, d)']_vars

\* Witness of C16: two updates that add 3 and 1 to f both read f = 5 before
\* either wrote, both succeeded, and f is 6 or 8.
C16_Witness ==
  \E c, d \in Made :
    /\ c # d /\ AddsTo(calls[c], "f") /\ AddsTo(calls[d], "f")
    /\ Operand(calls[c]) = Num(3) /\ Operand(calls[d]) = Num(1)
    /\ calls[c].promise.state = "fulfilled" /\ calls[d].promise.state = "fulfilled"
    /\ BothReadFirst(c, d)
    /\ GetProp(calls[c].read.val, "f") = vNum
    /\ GetProp(Stored("k1"), "f") \in {Num(6), Num(8)}
====
